---- MODULE Spec2Model ----
(***************************************************************************)
(* A model of office_to_text.py: the six format extractors, the dispatch   *)
(* by file extension and the conversion orchestrator                       *)
(* convert_office_to_text.                                                 *)
(*                                                                         *)
(* Strings are sequences of tokens.  A token is a run of characters that   *)
(* holds neither "." nor "/" (or is exactly "." or "/", or a separator     *)
(* "\n", "\t"), so that os.path.splitext, os.path.join, str.endswith and   *)
(* str.lower act on a token sequence as they act on the characters.        *)
(* Python values that may be None are records tagged by t.                 *)
(***************************************************************************)
EXTENDS Integers, Sequences, FiniteSets, TLC

VARIABLES
    flags,            \* has_docx, has_openpyxl, has_pptx, has_win32com
    pc,               \* per call: position in convert_office_to_text
    file_obj,         \* per call: the upload (None or a named readable object)
    requested,        \* per call: output_filename as passed by the caller
    output_filename,  \* per call: the local after lines 130-135
    temp_dir,         \* per call: result of tempfile.mkdtemp()
    temp_file_path,   \* per call: scratch input path
    file_ext,         \* per call: lower-cased extension
    text,             \* per call: extracted text
    caught,           \* per call: exception caught at line 162, if any
    invoked,          \* per call: the extractors called, in order
    app,              \* per call: host application of a legacy extractor
    result,           \* per call: how the call ended
    files,            \* file system: path -> content
    dirs,             \* file system: existing directories
    document,         \* input of a single extractor run
    extracted         \* output of a single extractor run

vars == <<flags, pc, file_obj, requested, output_filename, temp_dir,
          temp_file_path, file_ext, text, caught, invoked, app, result,
          files, dirs, document, extracted>>

callVars == <<flags, pc, file_obj, requested, output_filename, temp_dir,
              temp_file_path, file_ext, text, caught, invoked, app, result,
              files, dirs>>

-----------------------------------------------------------------------------
(* Python values *)

PyNone == [t |-> "None"]
PyStr(s) == [t |-> "str", s |-> s]
PyInt(n) == [t |-> "int", n |-> n]
PyFile(name, data) == [t |-> "file", name |-> name, data |-> data]

\* bool(v) for None, str and file objects
Truthy(v) == IF v.t = "None" THEN FALSE
             ELSE IF v.t = "str" THEN v.s # <<>>
             ELSE TRUE

\* str(v) for a cell value
Str(v) == IF v.t = "str" THEN v.s ELSE <<ToString(v.n)>>

\* sep.join(parts)
RECURSIVE Join(_, _)
Join(sep, parts) ==
    IF parts = <<>> THEN <<>>
    ELSE IF Len(parts) = 1 THEN parts[1]
    ELSE parts[1] \o <<sep>> \o Join(sep, Tail(parts))

\* str.lower() of one token
LowerTok(tok) ==
    CASE tok = "A" -> "a"
      [] tok = "DOCX" -> "docx"
      [] tok = "Ppt" -> "ppt"
      [] tok = "XLS" -> "xls"
      [] tok = "PDF" -> "pdf"
      [] OTHER -> tok

Lower(s) == [i \in 1..Len(s) |-> LowerTok(s[i])]

\* s.endswith(suffix)
EndsWith(s, suffix) ==
    /\ Len(s) >= Len(suffix)
    /\ SubSeq(s, Len(s) - Len(suffix) + 1, Len(s)) = suffix

\* s.rfind(tok), 1-based, 0 when absent
RFind(s, tok) ==
    LET hits == {i \in 1..Len(s) : s[i] = tok}
    IN IF hits = {} THEN 0 ELSE CHOOSE i \in hits : \A j \in hits : j <= i

-----------------------------------------------------------------------------
(* os.path (posixpath) *)

\* os.path.splitext(p)[1]: the last dot after the last separator starts the
\* extension, unless only dots precede it in the file name
SplitExt(p) ==
    LET sepIndex == RFind(p, "/")
        dotIndex == RFind(p, ".")
    IN IF dotIndex > sepIndex
          /\ \E k \in (sepIndex + 1)..(dotIndex - 1) : p[k] # "."
       THEN SubSeq(p, dotIndex, Len(p))
       ELSE <<>>

\* os.path.join(a, b): an absolute b discards a
PathJoin(a, b) ==
    IF b # <<>> /\ b[1] = "/" THEN b
    ELSE IF a = <<>> \/ a[Len(a)] = "/" THEN a \o b
    ELSE a \o <<"/">> \o b

\* the directory a path names a file in
DirName(p) ==
    LET i == RFind(p, "/")
    IN IF i = 0 THEN <<>> ELSE IF i = 1 THEN <<"/">> ELSE SubSeq(p, 1, i - 1)

\* p lies below directory d
InsideDir(p, d) ==
    /\ Len(p) > Len(d) + 1
    /\ SubSeq(p, 1, Len(d) + 1) = d \o <<"/">>

\* open(p, 'w') can create or truncate p
CanOpenForWrite(p) == DirName(p) \in dirs /\ p \notin dirs

-----------------------------------------------------------------------------
(* Documents.  A file's content is [fmt, body]:                            *)
(*   docx, doc : body is the sequence of paragraphs (each a string)        *)
(*   xlsx, xls : body is the sequence of sheets [name, rows], rows a       *)
(*               sequence of rows of cell values, row 1 and column 1 first *)
(*   pptx, ppt : body is the sequence of slides, a slide the sequence of   *)
(*               its shapes [hasText, text]                                *)
(*   txt       : body is the text written                                  *)
(*   junk      : bytes no library can read                                 *)
(*   truncated : what a write that failed left behind                      *)

Doc(fmt, body) == [fmt |-> fmt, body |-> body]

\* lines 36-40
extract_text_from_docx(paragraphs) == Join("\n", paragraphs)

\* lines 52-55: the string forms of the cells of a row that are not None
RECURSIVE RowText(_)
RowText(row) ==
    IF row = <<>> THEN <<>>
    ELSE (IF Head(row) # PyNone THEN <<Str(Head(row))>> ELSE <<>>)
         \o RowText(Tail(row))

\* lines 51-57: one tab-joined line per row whose row_text is not empty
RECURSIVE RowLines(_)
RowLines(rows) ==
    IF rows = <<>> THEN <<>>
    ELSE (IF RowText(Head(rows)) # <<>>
          THEN <<Join("\t", RowText(Head(rows)))>> ELSE <<>>)
         \o RowLines(Tail(rows))

\* lines 47-57
RECURSIVE XlsxLines(_)
XlsxLines(sheets) ==
    IF sheets = <<>> THEN <<>>
    ELSE <<<<"Sheet: ">> \o Head(sheets).name>>
         \o RowLines(Head(sheets).rows)
         \o XlsxLines(Tail(sheets))

\* lines 44-59
extract_text_from_xlsx(sheets) == Join("\n", XlsxLines(sheets))

\* sheet.Cells(row, col).Value: addressed from the sheet's cell A1
Cells(sheet, row, col) ==
    IF row <= Len(sheet.rows) /\ col <= Len(sheet.rows[row])
    THEN sheet.rows[row][col] ELSE PyNone

\* sheet.UsedRange: the rectangle bounding the cells that hold a value
\* (the single cell A1 for a sheet that holds none)
UsedRange(sheet) ==
    LET all == UNION {{<<r, c>> : c \in 1..Len(sheet.rows[r])} :
                         r \in 1..Len(sheet.rows)}
        used == {rc \in all : Cells(sheet, rc[1], rc[2]) # PyNone}
        rs == {rc[1] : rc \in used}
        cs == {rc[2] : rc \in used}
        Min(S) == CHOOSE m \in S : \A n \in S : m <= n
        Max(S) == CHOOSE m \in S : \A n \in S : n <= m
    IN IF used = {} THEN [row |-> 1, col |-> 1, rows |-> 1, cols |-> 1]
       ELSE [row |-> Min(rs), col |-> Min(cs),
             rows |-> Max(rs) - Min(rs) + 1, cols |-> Max(cs) - Min(cs) + 1]

\* lines 95-99 for one row index
RECURSIVE XlsRowText(_, _, _, _)
XlsRowText(sheet, row, col, ncols) ==
    IF col > ncols THEN <<>>
    ELSE (IF Cells(sheet, row, col) # PyNone
          THEN <<Str(Cells(sheet, row, col))>> ELSE <<>>)
         \o XlsRowText(sheet, row, col + 1, ncols)

\* lines 94-101: row in range(1, used_range.Rows.Count + 1)
RECURSIVE XlsRowLines(_, _, _, _)
XlsRowLines(sheet, row, nrows, ncols) ==
    IF row > nrows THEN <<>>
    ELSE (IF XlsRowText(sheet, row, 1, ncols) # <<>>
          THEN <<Join("\t", XlsRowText(sheet, row, 1, ncols))>> ELSE <<>>)
         \o XlsRowLines(sheet, row + 1, nrows, ncols)

\* lines 91-101
RECURSIVE XlsLines(_)
XlsLines(sheets) ==
    IF sheets = <<>> THEN <<>>
    ELSE <<<<"Sheet: ">> \o Head(sheets).name>>
         \o XlsRowLines(Head(sheets), 1, UsedRange(Head(sheets)).rows,
                        UsedRange(Head(sheets)).cols)
         \o XlsLines(Tail(sheets))

\* lines 89-105 (the text built between Open and Close)
extract_text_from_xls(sheets) == Join("\n", XlsLines(sheets))

\* a line for every shape, whether or not it has a text attribute
ShapeLinesOfAll(shapes) == [i \in 1..Len(shapes) |-> shapes[i].text]

\* lines 68-70: hasattr(shape, "text")
RECURSIVE ShapeLines(_)
ShapeLines(shapes) ==
    IF shapes = <<>> THEN <<>>
    ELSE (IF Head(shapes).hasText THEN <<Head(shapes).text>> ELSE <<>>)
         \o ShapeLines(Tail(shapes))

\* lines 66-70: enumerate(prs.slides), i counted from 0
RECURSIVE PptxLines(_, _)
PptxLines(slides, i) ==
    IF slides = <<>> THEN <<>>
    ELSE <<<<"Slide ", ToString(i + 1)>>>>
         \o ShapeLines(Head(slides))
         \o PptxLines(Tail(slides), i + 1)

\* lines 63-72
extract_text_from_pptx(slides) == Join("\n", PptxLines(slides, 0))

\* line 79: doc.Content.Text, every paragraph ended by its mark
RECURSIVE ContentText(_)
ContentText(paragraphs) ==
    IF paragraphs = <<>> THEN <<>>
    ELSE Head(paragraphs) \o <<"\r">> \o ContentText(Tail(paragraphs))

\* line 79
extract_text_from_doc(paragraphs) == ContentText(paragraphs)

\* lines 116-119: HasTextFrame, then TextFrame.HasText
RECURSIVE PptShapeLines(_)
PptShapeLines(shapes) ==
    IF shapes = <<>> THEN <<>>
    ELSE (IF Head(shapes).hasText /\ Head(shapes).text # <<>>
          THEN <<Head(shapes).text>> ELSE <<>>)
         \o PptShapeLines(Tail(shapes))

\* lines 113-119: i in range(1, Slides.Count + 1)
RECURSIVE PptLines(_, _)
PptLines(slides, i) ==
    IF i > Len(slides) THEN <<>>
    ELSE <<<<"Slide ", ToString(i)>>>>
         \o PptShapeLines(slides[i])
         \o PptLines(slides, i + 1)

\* lines 111-123 (the text built between Open and Close)
extract_text_from_ppt(slides) == Join("\n", PptLines(slides, 1))

\* the text an extractor builds from a document it can read
ExtractorText(ext, body) ==
    CASE ext = "docx" -> extract_text_from_docx(body)
      [] ext = "xlsx" -> extract_text_from_xlsx(body)
      [] ext = "pptx" -> extract_text_from_pptx(body)
      [] ext = "doc" -> extract_text_from_doc(body)
      [] ext = "xls" -> extract_text_from_xls(body)
      [] ext = "ppt" -> extract_text_from_ppt(body)

-----------------------------------------------------------------------------
(* The callers, and what they may pass *)

Calls == {"c1", "c2"}

SampleParagraphs == <<<<"Hello">>, <<>>, <<"World">>>>

SampleSheets ==
    << [name |-> <<"Sheet1">>,
        rows |-> << <<PyStr(<<"a">>), PyStr(<<"b">>)>>,
                    <<PyNone, PyNone>>,
                    <<PyStr(<<"c">>)>> >>] >>

SampleSlides ==
    << << [hasText |-> TRUE, text |-> <<"Hello">>],
          [hasText |-> FALSE, text |-> <<>>] >>,
       <<>> >>

\* what an upload may hold: one well-formed document per format, and junk
Uploads ==
    { Doc("docx", SampleParagraphs), Doc("doc", SampleParagraphs),
      Doc("xlsx", SampleSheets), Doc("xls", SampleSheets),
      Doc("pptx", SampleSlides), Doc("ppt", SampleSlides),
      Doc("junk", <<>>) }

UploadDir == <<"/", "up">>
TmpRoot == <<"/", "tmp">>
TmpNames == {"tmpA", "tmpB"}

UploadNames ==
    { <<"a", ".", "docx">>, <<"A", ".", "DOCX">>, <<"b", ".", "xlsx">>,
      <<"c", ".", "pptx">>, <<"d", ".", "doc">>, <<"e", ".", "XLS">>,
      <<"f", ".", "Ppt">>, <<"notes", ".", "PDF">>, <<"notes", ".", "pdf">>,
      <<"noext">>, <<".", "docx">>, <<"a", ".", "b", ".", "xls">>,
      <<"/", "up", "/", "g", ".", "docx">>, <<"sub", "/", "h", ".", "doc">> }

OutputNames ==
    { PyNone, PyStr(<<>>), PyStr(<<"report">>),
      PyStr(<<"report", ".", "txt">>), PyStr(<<"report", ".", "doc">>),
      PyStr(<<"report", ".", "TXT">>), PyStr(<<".", "txt">>),
      PyStr(<<"txt">>), PyStr(<<"/", "up", "/", "x", ".", "txt">>),
      PyStr(<<"sub", "/", "y">>) }

FlagSets == [has_docx : BOOLEAN, has_openpyxl : BOOLEAN,
             has_pptx : BOOLEAN, has_win32com : BOOLEAN]

\* the uploads of two overlapping calls
OverlapNames ==
    { <<"a", ".", "docx">>, <<"d", ".", "doc">>,
      <<"/", "up", "/", "g", ".", "docx">> }
OverlapOutputNames == { PyStr(<<>>), PyStr(<<"/", "up", "/", "x", ".", "txt">>) }
OverlapUploads == { Doc("docx", SampleParagraphs), Doc("doc", SampleParagraphs),
                    Doc("docx", <<<<"Other">>>>) }

-----------------------------------------------------------------------------
(* How a call ends *)

NotEnded == [kind |-> "none"]
Return(t, path) == [kind |-> "return", text |-> t, path |-> path]
Raise(e) == [kind |-> "raise", exc |-> e]

\* the wrong message for a missing upload
NoFileResultUnsupported == Return(<<"Unsupported file format: ">>, PyNone)

\* line 128
NoFileResult == Return(<<"Please upload a file.">>, PyNone)

\* line 161
UnsupportedResult(ext) == Return(<<"Unsupported file format: ">> \o ext, PyNone)

\* lines 162-163
ErrorResult(e) == Return(<<"Error processing file: ">> \o e, PyNone)

\* the extension is replaced, not appended to
NormalizeOutputNameReplacing(name) ==
    LET defaulted == IF ~Truthy(name) THEN <<"output", ".", "txt">> ELSE name.s
    IN IF ~EndsWith(defaulted, <<".", "txt">>)
       THEN SubSeq(defaulted, 1, Len(defaulted) - Len(SplitExt(defaulted)))
            \o <<".", "txt">>
       ELSE defaulted

\* lines 130-135
NormalizeOutputName(name) ==
    LET defaulted == IF ~Truthy(name) THEN <<"output", ".", "txt">> ELSE name.s
    IN IF ~EndsWith(defaulted, <<".", "txt">>)
       THEN defaulted \o <<".", "txt">>
       ELSE defaulted

\* the legacy word branch gated by the modern word flag
SelectExtractorWrongFlag(ext, fl) ==
    IF ext = <<".", "docx">> /\ fl.has_docx THEN "docx"
    ELSE IF ext = <<".", "xlsx">> /\ fl.has_openpyxl THEN "xlsx"
    ELSE IF ext = <<".", "pptx">> /\ fl.has_pptx THEN "pptx"
    ELSE IF ext = <<".", "doc">> /\ fl.has_docx THEN "doc"
    ELSE IF ext = <<".", "xls">> /\ fl.has_win32com THEN "xls"
    ELSE IF ext = <<".", "ppt">> /\ fl.has_win32com THEN "ppt"
    ELSE ""

\* lines 148-161: the branch taken, "" for the else branch
SelectExtractor(ext, fl) ==
    IF ext = <<".", "docx">> /\ fl.has_docx THEN "docx"
    ELSE IF ext = <<".", "xlsx">> /\ fl.has_openpyxl THEN "xlsx"
    ELSE IF ext = <<".", "pptx">> /\ fl.has_pptx THEN "pptx"
    ELSE IF ext = <<".", "doc">> /\ fl.has_win32com THEN "doc"
    ELSE IF ext = <<".", "xls">> /\ fl.has_win32com THEN "xls"
    ELSE IF ext = <<".", "ppt">> /\ fl.has_win32com THEN "ppt"
    ELSE ""

Legacy == {"doc", "xls", "ppt"}

\* the exception a library raises on a file it cannot read
BadFile == <<"bad file">>
\* the exception of a failed automation call
ComError == <<"com_error">>

-----------------------------------------------------------------------------
(* convert_office_to_text, one call c *)

Put(f, k, v) == [x \in DOMAIN f \cup {k} |-> IF x = k THEN v ELSE f[x]]

\* the call ends
End(c, r) ==
    /\ result' = [result EXCEPT ![c] = r]
    /\ pc' = [pc EXCEPT ![c] = "done"]

\* no handler: the exception of the extractor leaves the call
CatchNothing(c, e) ==
    /\ caught' = [caught EXCEPT ![c] = PyStr(e)]
    /\ End(c, Raise(e))

\* lines 162-163: an exception of the extractor is caught
Catch(c, e) ==
    /\ caught' = [caught EXCEPT ![c] = PyStr(e)]
    /\ End(c, ErrorResult(e))

\* lines 125-139: the call begins; no file ends it at once
Call(c, names, outs, uploads) ==
    /\ pc[c] = "idle"
    /\ \E f \in {PyNone} \cup {PyFile(n, d) : n \in names, d \in uploads},
          o \in outs :
          /\ file_obj' = [file_obj EXCEPT ![c] = f]
          /\ requested' = [requested EXCEPT ![c] = o]
          /\ IF ~Truthy(f)
             THEN /\ End(c, NoFileResult)
                  /\ UNCHANGED <<output_filename, temp_dir, temp_file_path, dirs>>
             ELSE \E t \in TmpNames :
                  LET d == TmpRoot \o <<"/", t>>
                  IN /\ d \notin dirs
                     /\ dirs' = dirs \cup {d}
                     /\ output_filename' =
                            [output_filename EXCEPT ![c] = NormalizeOutputName(o)]
                     /\ temp_dir' = [temp_dir EXCEPT ![c] = d]
                     /\ temp_file_path' =
                            [temp_file_path EXCEPT ![c] = PathJoin(d, f.name)]
                     /\ pc' = [pc EXCEPT ![c] = "persist"]
                     /\ UNCHANGED result
    /\ UNCHANGED <<flags, file_ext, text, caught, invoked, app, files,
                   document, extracted>>

\* lines 141-142: open(temp_file_path, 'wb') and write; either may raise
Persist(c) ==
    /\ pc[c] = "persist"
    /\ IF ~CanOpenForWrite(temp_file_path[c])
       THEN /\ End(c, Raise(<<"FileNotFoundError">>))
            /\ UNCHANGED files
       ELSE \E written \in BOOLEAN :
            IF written
            THEN /\ files' = Put(files, temp_file_path[c], file_obj[c].data)
                 /\ pc' = [pc EXCEPT ![c] = "dispatch"]
                 /\ UNCHANGED result
            ELSE /\ files' = Put(files, temp_file_path[c], Doc("truncated", <<>>))
                 /\ End(c, Raise(<<"OSError">>))
    /\ UNCHANGED <<flags, file_obj, requested, output_filename, temp_dir,
                   temp_file_path, file_ext, text, caught, invoked, app, dirs,
                   document, extracted>>

\* lines 145-161: the branch is chosen; a modern extractor runs to its end
\* (lines 34-72), a legacy extractor launches its application (76, 86, 109)
Dispatch(c) ==
    /\ pc[c] = "dispatch"
    /\ LET ext == Lower(SplitExt(file_obj[c].name))
           sel == SelectExtractor(ext, flags)
           content == files[temp_file_path[c]]
       IN /\ file_ext' = [file_ext EXCEPT ![c] = ext]
          /\ IF sel = ""
             THEN /\ End(c, UnsupportedResult(ext))
                  /\ UNCHANGED <<invoked, app, text, caught>>
             ELSE /\ invoked' = [invoked EXCEPT ![c] = Append(@, sel)]
                  /\ IF sel \in Legacy
                     THEN \E launched \in BOOLEAN :
                          IF launched
                          THEN /\ app' = [app EXCEPT ![c] = "running"]
                               /\ pc' = [pc EXCEPT ![c] = "open"]
                               /\ UNCHANGED <<text, caught, result>>
                          ELSE /\ Catch(c, ComError)
                               /\ UNCHANGED <<app, text>>
                     ELSE IF content.fmt = sel
                          THEN /\ text' = [text EXCEPT ![c] =
                                             ExtractorText(sel, content.body)]
                               /\ pc' = [pc EXCEPT ![c] = "save"]
                               /\ UNCHANGED <<app, caught, result>>
                          ELSE /\ Catch(c, BadFile)
                               /\ UNCHANGED <<app, text>>
    /\ UNCHANGED <<flags, file_obj, requested, output_filename, temp_dir,
                   temp_file_path, files, dirs, document, extracted>>

\* lines 78, 88, 110: the application opens the document, or raises
LegacyOpen(c) ==
    /\ pc[c] = "open"
    /\ \E opened \in BOOLEAN :
          IF opened /\ files[temp_file_path[c]].fmt = invoked[c][1]
          THEN /\ pc' = [pc EXCEPT ![c] = "read"]
               /\ UNCHANGED <<caught, result>>
          ELSE Catch(c, ComError)
    /\ UNCHANGED <<flags, file_obj, requested, output_filename, temp_dir,
                   temp_file_path, file_ext, text, invoked, app, files, dirs,
                   document, extracted>>

\* lines 79, 89-101, 111-119: the text is read, or a call raises
LegacyRead(c) ==
    /\ pc[c] = "read"
    /\ \E read \in BOOLEAN :
          IF read /\ files[temp_file_path[c]].fmt = invoked[c][1]
          THEN /\ text' = [text EXCEPT ![c] =
                             ExtractorText(invoked[c][1],
                                           files[temp_file_path[c]].body)]
               /\ pc' = [pc EXCEPT ![c] = "close"]
               /\ UNCHANGED <<caught, result>>
          ELSE /\ Catch(c, ComError)
               /\ UNCHANGED text
    /\ UNCHANGED <<flags, file_obj, requested, output_filename, temp_dir,
                   temp_file_path, file_ext, invoked, app, files, dirs,
                   document, extracted>>

\* lines 80, 103, 121: the document is closed, or the call raises
LegacyClose(c) ==
    /\ pc[c] = "close"
    /\ \E closed \in BOOLEAN :
          IF closed
          THEN /\ pc' = [pc EXCEPT ![c] = "quit"]
               /\ UNCHANGED <<caught, result>>
          ELSE Catch(c, ComError)
    /\ UNCHANGED <<flags, file_obj, requested, output_filename, temp_dir,
                   temp_file_path, file_ext, text, invoked, app, files, dirs,
                   document, extracted>>

\* lines 81-82, 104-105, 122-123: the application quits, the text is returned
LegacyQuit(c) ==
    /\ pc[c] = "quit"
    /\ app' = [app EXCEPT ![c] = "quit"]
    /\ pc' = [pc EXCEPT ![c] = "save"]
    /\ UNCHANGED <<flags, file_obj, requested, output_filename, temp_dir,
                   temp_file_path, file_ext, text, caught, invoked, result,
                   files, dirs, document, extracted>>

\* line 166
OutputPath(c) == PathJoin(temp_dir[c], output_filename[c])

\* lines 166-170: open(output_path, 'w') and write; either may raise
Save(c) ==
    /\ pc[c] = "save"
    /\ IF ~CanOpenForWrite(OutputPath(c))
       THEN /\ End(c, Raise(<<"FileNotFoundError">>))
            /\ UNCHANGED files
       ELSE \E written \in BOOLEAN :
            IF written
            THEN /\ files' = Put(files, OutputPath(c), Doc("txt", text[c]))
                 /\ End(c, Return(text[c], PyStr(OutputPath(c))))
            ELSE /\ files' = Put(files, OutputPath(c), Doc("txt", <<>>))
                 /\ End(c, Raise(<<"OSError">>))
    /\ UNCHANGED <<flags, file_obj, requested, output_filename, temp_dir,
                   temp_file_path, file_ext, text, caught, invoked, app, dirs,
                   document, extracted>>

Step(c) ==
    \/ Persist(c)
    \/ Dispatch(c)
    \/ LegacyOpen(c)
    \/ LegacyRead(c)
    \/ LegacyClose(c)
    \/ LegacyQuit(c)
    \/ Save(c)

IdleCalls ==
    /\ pc = [c \in Calls |-> "idle"]
    /\ file_obj = [c \in Calls |-> PyNone]
    /\ requested = [c \in Calls |-> PyNone]
    /\ output_filename = [c \in Calls |-> <<>>]
    /\ temp_dir = [c \in Calls |-> <<>>]
    /\ temp_file_path = [c \in Calls |-> <<>>]
    /\ file_ext = [c \in Calls |-> <<>>]
    /\ text = [c \in Calls |-> <<>>]
    /\ caught = [c \in Calls |-> PyNone]
    /\ invoked = [c \in Calls |-> <<>>]
    /\ app = [c \in Calls |-> "none"]
    /\ result = [c \in Calls |-> NotEnded]
    /\ files = [p \in {} |-> PyNone]
    /\ dirs = {<<"/">>, TmpRoot, UploadDir}

NoExtractorRun ==
    /\ document = Doc("junk", <<>>)
    /\ extracted = PyNone

\* lines 7-32: the availability flags are set once, at import
AllFlags == [has_docx |-> TRUE, has_openpyxl |-> TRUE,
             has_pptx |-> TRUE, has_win32com |-> TRUE]

(* One call at a time, every input *)
Init ==
    /\ flags \in FlagSets
    /\ IdleCalls
    /\ NoExtractorRun

Next ==
    \/ Call("c1", UploadNames, OutputNames, Uploads)
    \/ Step("c1")

Spec == Init /\ [][Next]_vars

(* Two calls that overlap in time *)
InitOverlap ==
    /\ flags = AllFlags
    /\ IdleCalls
    /\ NoExtractorRun

NextOverlap ==
    \E c \in Calls :
        \/ Call(c, OverlapNames, OverlapOutputNames, OverlapUploads)
        \/ Step(c)

SpecOverlap == InitOverlap /\ [][NextOverlap]_vars

-----------------------------------------------------------------------------
(* A single extractor run on a document of bounded size *)

MaxSheets == 2
MaxRows == 2
MaxCols == 2
MaxSlides == 2
MaxShapes == 2

SeqsUpTo(S, n) == UNION {[1..k -> S] : k \in 0..n}

CellValues == {PyNone, PyStr(<<"a">>), PyInt(7)}
SheetNames == {<<"Sheet1">>, <<"Data">>}
Grids == UNION {[1..r -> [1..MaxCols -> CellValues]] : r \in 0..MaxRows}
Sheets == [name : SheetNames, rows : Grids]
Workbooks == SeqsUpTo(Sheets, MaxSheets)

Shapes == {[hasText |-> FALSE, text |-> <<>>],
           [hasText |-> TRUE, text |-> <<>>],
           [hasText |-> TRUE, text |-> <<"Hello">>]}
Presentations == SeqsUpTo(SeqsUpTo(Shapes, MaxShapes), MaxSlides)

\* lines 42-59 on an opened workbook
RunXlsx ==
    /\ document.fmt = "xlsx"
    /\ extracted = PyNone
    /\ extracted' = PyStr(extract_text_from_xlsx(document.body))
    /\ UNCHANGED <<callVars, document>>

\* lines 84-105 on an opened workbook
RunXls ==
    /\ document.fmt = "xls"
    /\ extracted = PyNone
    /\ extracted' = PyStr(extract_text_from_xls(document.body))
    /\ UNCHANGED <<callVars, document>>

\* lines 61-72 on an opened presentation
RunPptx ==
    /\ document.fmt = "pptx"
    /\ extracted = PyNone
    /\ extracted' = PyStr(extract_text_from_pptx(document.body))
    /\ UNCHANGED <<callVars, document>>

\* lines 107-123 on an opened presentation
RunPpt ==
    /\ document.fmt = "ppt"
    /\ extracted = PyNone
    /\ extracted' = PyStr(extract_text_from_ppt(document.body))
    /\ UNCHANGED <<callVars, document>>

InitSheets ==
    /\ flags = AllFlags
    /\ IdleCalls
    /\ document \in {Doc(f, w) : f \in {"xlsx", "xls"}, w \in Workbooks}
    /\ extracted = PyNone

NextSheets == RunXlsx \/ RunXls

SpecSheets == InitSheets /\ [][NextSheets]_vars

InitSlides ==
    /\ flags = AllFlags
    /\ IdleCalls
    /\ document \in {Doc(f, p) : f \in {"pptx", "ppt"}, p \in Presentations}
    /\ extracted = PyNone

NextSlides == RunPptx \/ RunPpt

SpecSlides == InitSlides /\ [][NextSlides]_vars

-----------------------------------------------------------------------------
(* Properties of convert_office_to_text *)

\* sub occurs in s
Contains(s, sub) ==
    \E i \in 1..(Len(s) - Len(sub) + 1) : SubSeq(s, i, i + Len(sub) - 1) = sub

Ended(c) == pc[c] = "done"
HasFile(c) == pc[c] # "idle" /\ file_obj[c] # PyNone

\* the files of call c's scratch directory, and the one at its output path,
\* other than its scratch input
OutputFiles(c) ==
    {p \in DOMAIN files :
        /\ p # temp_file_path[c]
        /\ InsideDir(p, temp_dir[c]) \/ p = OutputPath(c)}

\* C1: a legacy extractor never leaves the call with the application it
\* launched still running, whether it returned or raised.
LegacyAppAlwaysQuit ==
    \A c \in Calls : Ended(c) => app[c] # "running"

\* the upload of call c was written to its scratch input
Persisted(c) ==
    /\ HasFile(c)
    /\ temp_file_path[c] \in DOMAIN files
    /\ files[temp_file_path[c]] = file_obj[c].data

\* C2: every call (here: every call that got as far as writing its scratch
\* input) ends either returning the text with the path of a file holding
\* exactly that text, or returning a message with no path and with no output
\* file at all, not even an empty one, in its scratch directory.
OutputAllOrNothing ==
    \A c \in Calls : Ended(c) /\ Persisted(c) =>
        /\ result[c].kind = "return"
        /\ IF result[c].path # PyNone
           THEN /\ result[c].path.s \in DOMAIN files
                /\ files[result[c].path.s] = Doc("txt", result[c].text)
           ELSE OutputFiles(c) = {}

\* C3: an exception raised by the selected extractor is not propagated: the
\* call returns a message containing the exception's text and no path, and
\* writes no output file.
ExtractorErrorReported ==
    \A c \in Calls : caught[c] # PyNone =>
        /\ Ended(c)
        /\ result[c].kind = "return"
        /\ result[c].path = PyNone
        /\ Contains(result[c].text, caught[c].s)
        /\ OutputFiles(c) = {}

ExtractorErrorWitness ==
    \E c \in Calls :
        /\ Ended(c)
        /\ invoked[c] = <<"docx">>
        /\ files[temp_file_path[c]].fmt = "junk"
        /\ caught[c] = PyStr(BadFile)

\* the fixed table of six extensions, each with its capability flag
DispatchTable ==
    { <<"docx", "has_docx">>, <<"xlsx", "has_openpyxl">>, <<"pptx", "has_pptx">>,
      <<"doc", "has_win32com">>, <<"xls", "has_win32com">>,
      <<"ppt", "has_win32com">> }

\* C4: when a call dispatches, the extractor invoked is the one the table
\* gives for the lower-cased extension if that extension's flag is true, and
\* exactly that one; for any other extension, or a false flag, none is
\* invoked and the call returns a message containing the lower-cased
\* extension and no path.  No extractor is invoked anywhere else.
DispatchByExtension ==
    [][\A c \in Calls :
        IF pc[c] = "dispatch" /\ pc'[c] # "dispatch"
        THEN LET ext == file_ext'[c]
                 rows == {r \in DispatchTable : ext = <<".", r[1]>> /\ flags[r[2]]}
             IN /\ ext = Lower(SplitExt(file_obj[c].name))
                /\ file_obj[c].name = <<"A", ".", "DOCX">> => ext = <<".", "docx">>
                /\ file_obj[c].name = <<"e", ".", "XLS">> => ext = <<".", "xls">>
                /\ Cardinality(rows) <= 1
                /\ \A r \in rows : invoked'[c] = <<r[1]>>
                /\ rows = {} =>
                      /\ invoked'[c] = <<>>
                      /\ pc'[c] = "done"
                      /\ result'[c].kind = "return"
                      /\ result'[c].path = PyNone
                      /\ Contains(result'[c].text, ext)
        ELSE invoked'[c] = invoked[c]]_vars

DispatchWitness ==
    \E c \in Calls :
        /\ file_obj[c] # PyNone
        /\ file_obj[c].name = <<"e", ".", "XLS">>
        /\ flags.has_win32com /\ ~flags.has_docx
        /\ invoked[c] = <<"xls">>

\* C5: the output name is "output.txt" for a blank request, the requested
\* name itself when it ends in ".txt", and otherwise the requested name with
\* ".txt" appended; it always ends in ".txt" and normalizing it again
\* changes nothing.
OutputNameNormalized ==
    \A c \in Calls : HasFile(c) =>
        LET raw == requested[c]
            out == output_filename[c]
            n == Len(out)
            blank == raw = PyNone \/ raw = PyStr(<<>>)
            hasTxt == /\ ~blank
                      /\ Len(raw.s) >= 2
                      /\ raw.s[Len(raw.s) - 1] = "."
                      /\ raw.s[Len(raw.s)] = "txt"
        IN /\ blank => out = <<"output", ".", "txt">>
           /\ hasTxt => out = raw.s
           /\ ~blank /\ ~hasTxt => out = raw.s \o <<".", "txt">>
           /\ n >= 2 /\ out[n - 1] = "." /\ out[n] = "txt"
           /\ NormalizeOutputName(PyStr(out)) = out
           /\ raw = PyStr(<<"report">>) => out = <<"report", ".", "txt">>
           /\ raw = PyStr(<<"report", ".", "doc">>)
                 => out = <<"report", ".", "doc", ".", "txt">>

OutputNameWitness ==
    \E c \in Calls :
        /\ HasFile(c)
        /\ requested[c] = PyStr(<<"report", ".", "doc">>)
        /\ output_filename[c] = <<"report", ".", "doc", ".", "txt">>

\* C6: a call with no file returns the fixed message and no path, whatever
\* the requested name, with no extractor invoked and no scratch directory made.
NoFileRejected ==
    \A c \in Calls : pc[c] # "idle" /\ ~Truthy(file_obj[c]) =>
        /\ Ended(c)
        /\ result[c] = [kind |-> "return", text |-> <<"Please upload a file.">>,
                        path |-> PyNone]
        /\ invoked[c] = <<>>
        /\ app[c] = "none"
        /\ temp_dir[c] = <<>>
        /\ DOMAIN files = {}

NoFileWitness ==
    \E c \in Calls :
        /\ Ended(c)
        /\ file_obj[c] = PyNone
        /\ requested[c] = PyStr(<<"report">>)

\* C7: no two calls share a scratch input path, so that the scratch input a
\* call is about to read holds its own upload unchanged.
ScratchInputIsolated ==
    \A c \in Calls : HasFile(c) =>
        /\ pc[c] = "dispatch" => files[temp_file_path[c]] = file_obj[c].data
        /\ \A d \in Calls \ {c} :
              HasFile(d) => temp_file_path[d] # temp_file_path[c]

\* C8: a successful call returns the path of a file inside its own scratch
\* directory, named by the normalized output name, holding the returned text.
ArtifactInsideScratchDir ==
    \A c \in Calls :
        Ended(c) /\ result[c].kind = "return" /\ result[c].path # PyNone =>
            /\ InsideDir(result[c].path.s, temp_dir[c])
            /\ result[c].path.s = temp_dir[c] \o <<"/">> \o output_filename[c]
            /\ result[c].path.s \in DOMAIN files
            /\ files[result[c].path.s] = Doc("txt", result[c].text)

-----------------------------------------------------------------------------
(* Properties of the extractors *)

RECURSIVE Flatten(_)
Flatten(ss) == IF ss = <<>> THEN <<>> ELSE Head(ss) \o Flatten(Tail(ss))

\* the cells of a row that hold a value, as strings
NonEmptyCells(row) ==
    LET kept == SelectSeq(row, LAMBDA v : v # PyNone)
    IN [k \in 1..Len(kept) |-> Str(kept[k])]

\* the lines the rule gives for one sheet
SheetLinesByRule(sheet) ==
    LET kept == SelectSeq(sheet.rows, LAMBDA row : NonEmptyCells(row) # <<>>)
    IN <<<<"Sheet: ">> \o sheet.name>>
       \o [k \in 1..Len(kept) |-> Join("\t", NonEmptyCells(kept[k]))]

WorkbookLinesByRule(sheets) ==
    Flatten([k \in 1..Len(sheets) |-> SheetLinesByRule(sheets[k])])

\* C9: both spreadsheet extractors give, per sheet in order, the marker line
\* and then one tab-joined line per row that has a non-empty cell, nothing
\* for a row without one; the example workbook gives Sheet: Sheet1, a<TAB>b, c.
SpreadsheetLinesByRule ==
    extracted # PyNone =>
        /\ extracted.s = Join("\n", WorkbookLinesByRule(document.body))
        /\ document.body = <<[name |-> <<"Sheet1">>,
                              rows |-> << <<PyStr(<<"a">>), PyInt(7)>>,
                                          <<PyNone, PyNone>> >>]>>
              => extracted.s = <<"Sheet: ", "Sheet1", "\n", "a", "\t", "7">>

\* the lines the rule gives for slide n
SlideLinesByRule(n, shapes) ==
    LET kept == SelectSeq(shapes, LAMBDA sh : sh.hasText)
    IN <<<<"Slide ", ToString(n)>>>> \o [k \in 1..Len(kept) |-> kept[k].text]

PresentationLinesByRule(slides) ==
    Flatten([n \in 1..Len(slides) |-> SlideLinesByRule(n, slides[n])])

\* C10: extract_text_from_pptx gives, per slide in order, the marker line
\* "Slide n" (n from 1) and then one line per shape that has a text attribute,
\* an empty line for an empty text; the example presentation gives
\* Slide 1, Hello, Slide 2.
PresentationLines ==
    extracted # PyNone /\ document.fmt = "pptx" =>
        /\ extracted.s = Join("\n", PresentationLinesByRule(document.body))
        /\ document.body = SampleSlides
              => extracted.s = <<"Slide ", "1", "\n", "Hello", "\n", "Slide ", "2">>

PresentationWitness ==
    /\ document = Doc("pptx", SampleSlides)
    /\ extracted = PyStr(<<"Slide ", "1", "\n", "Hello", "\n", "Slide ", "2">>)

====
